---- MODULE Spec2Model ----
(***************************************************************************)
(* Soft Power Switch Mk2 example sketch (SoftPowerSwitchMk2_Example.ino).  *)
(*                                                                         *)
(* The sketch is a single-threaded Arduino program: setup() runs once,     *)
(* loop() is called again and again, powerDown() never returns.  The model *)
(* follows the program counter through setup()'s confirmation loop, takes  *)
(* one step per call of loop() (split by the branch the call takes), and   *)
(* keeps the two wait loops of the 'r' test mode as positions of their own.*)
(* The PUSH input is the environment: every digitalRead(_PUSH) is a sample *)
(* whose value the environment chooses; during startup the samples follow  *)
(* the boot press, which lasts bootHold milliseconds.                      *)
(* The console is the environment too: a character it sends waits in the   *)
(* Serial RX buffer until the program reads it.  Spec starts at reset;     *)
(* WrapSpec starts in loop() shortly before millis() wraps.                *)
(***************************************************************************)
EXTENDS Integers, Sequences, FiniteSets, TLC

(* ------------------------------------------------------------------ *)
(* Program constants                                                  *)
(* ------------------------------------------------------------------ *)

\* int debounceDelay = 20;
debounceDelay == 20

\* delay(100) inside the startup confirmation loop
ConfirmPollMs == 100

\* the 500 of "(millis() - powerPressedStartTime) > 500" and "... < 500"
ConfirmMs == 500

\* the 2000 of "(millis() - powerPressedStartTime) > 2000"
PowerDownMs == 2000

\* delay(1) of the 'r' test mode loops and of powerDown()'s final loop
SpinMs == 1

(* ------------------------------------------------------------------ *)
(* Bounds of the model                                                *)
(* ------------------------------------------------------------------ *)

\* the clock value up to which behaviours are explored
MaxTime == 2600


\* iterations of powerDown()'s final loop that are explored
MaxSpin == 1

\* millis() when setup() starts the timer (line 49)
BootClocks == {0, 1}

\* how long the boot press may last, measured from the start of the timer
BootHolds == {0, 100, 400, 450, 500, 600, 700}

\* millis() of a call of loop() shortly before the counter wraps (signed
\* readings: 40 and 30 ms before the wrap)
WrapStarts == {0 - 2 * debounceDelay, 0 - debounceDelay - 10 * SpinMs}

\* time spent waiting for the press in the 'r' test mode (iterations of delay(1))
LockWaits == {0, debounceDelay}

\* time the button is held in the 'r' test mode (iterations of delay(1))
LockHolds == {debounceDelay, PowerDownMs + debounceDelay}

Level == {"LOW", "HIGH"}

\* characters the console can send: the two commands and any other one
Chars == {"z", "r", "x"}

\* Serial.available() is 0: nothing unread on the console
NoChar == ""

VARIABLES
    pc,                     \* position of the program
    now,                    \* millis()
    powerPressedStartTime,  \* the press timer, 0 = unset
    statMode, statLed,      \* STAT_LED: pinMode and level written
    offMode, offPin,        \* _OFF: pinMode and level written
    push,                   \* the most recent sample of _PUSH
    bootHold,               \* how long the boot press lasts (environment);
                            \* forgotten (0) once loop() has been called
    poll,                   \* what the last call of loop() sampled and did
    interrupted,            \* the button read released while the timer kept
                            \* running (see Interrupts)
    cause,                  \* which path called powerDown()
    runStart,               \* millis() when setup() returned, 0 before
    rx,                     \* the oldest unread character of the Serial RX
                            \* buffer, NoChar when the buffer is empty
    spins                   \* iterations of powerDown()'s final loop so far

vars == <<pc, now, powerPressedStartTime, statMode, statLed, offMode, offPin,
          push, bootHold, poll, interrupted, cause, runStart, rx, spins>>

pins == <<statMode, statLed, offMode, offPin>>

\* poll of a call of loop() that sampled nothing; how is "boot" before the
\* first call, "z" or "r" for a call that read that command
NoPoll(how) == [branch |-> how, second |-> "HIGH", held |-> 0]

(* ------------------------------------------------------------------ *)
(* Pure helpers                                                       *)
(* ------------------------------------------------------------------ *)

\* millis() - powerPressedStartTime.  Both are unsigned long (32 bits).  A
\* clock reading is kept as the signed 32-bit number with the same bits: a
\* negative reading -k is the unsigned value 2^32 - k, taken k ms before the
\* counter wraps to 0.  start is a reading taken no later than clock and
\* less than 2^31 ms before it, so the unsigned difference modulo 2^32 is
\* the plain difference of the two signed numbers.
Since(clock, start) == clock - start

\* the clock after ms more milliseconds; in the signed reading the wrap of
\* the counter is the step from -1 to 0
After(clock, ms) == clock + ms

\* digitalRead(_PUSH) during startup: the boot press lasts bootHold ms
BootSample(clock, start) ==
    IF Since(clock, start) < bootHold THEN "LOW" ELSE "HIGH"

\* line 57 with the two seconds of the comment at line 47
ConfirmElapsedLate(elapsed) == elapsed > PowerDownMs

\* line 57: leave the confirmation loop
ConfirmElapsed(elapsed) == elapsed > ConfirmMs

\* line 63 with "<=" in place of "<"
IsTapInclusive(elapsed) == elapsed <= ConfirmMs

\* line 63: the wake was a tap
IsTap(elapsed) == elapsed < ConfirmMs

\* line 136 with the startup threshold in place of 2000
HoldExpiredEarly(held) == held > ConfirmMs

\* line 136: the hold is long enough to power down
HoldExpired(held) == held > PowerDownMs

\* powerPressedStartTime > 0 on an unsigned long: any value but 0
TimerSet(t) == t # 0

(* ------------------------------------------------------------------ *)
(* Initial state: reset, before setup() has run                       *)
(* ------------------------------------------------------------------ *)

Init ==
    /\ pc = "setup"
    /\ now = 0
    /\ powerPressedStartTime = 0
    /\ statMode = "INPUT" /\ statLed = "LOW"
    /\ offMode = "INPUT" /\ offPin = "LOW"
    /\ bootHold \in BootHolds
    /\ push = IF bootHold > 0 THEN "LOW" ELSE "HIGH"
    /\ poll = NoPoll("boot")
    /\ interrupted = FALSE
    /\ cause = "none"
    /\ runStart = 0
    /\ rx = NoChar
    /\ spins = 0

(* ------------------------------------------------------------------ *)
(* powerDown()                                                        *)
(* ------------------------------------------------------------------ *)

\* lines 157-165 without digitalWrite(STAT_LED, LOW)
PowerDownLedStays(clock, why) ==
    /\ powerPressedStartTime' = clock
    /\ pc' = "powerDown"
    /\ cause' = why
    /\ UNCHANGED <<statLed, statMode, offMode, offPin>>

\* lines 157-165 with the timer reset in place of line 165
PowerDownClearsTimer(clock, why) ==
    /\ statLed' = "LOW"
    /\ powerPressedStartTime' = 0
    /\ pc' = "powerDown"
    /\ cause' = why
    /\ UNCHANGED <<statMode, offMode, offPin>>

\* lines 157-165: powerDown() is called on path why: LED low, the timer is
\* set to millis()
PowerDown(clock, why) ==
    /\ statLed' = "LOW"
    /\ powerPressedStartTime' = clock
    /\ pc' = "powerDown"
    /\ cause' = why
    /\ UNCHANGED <<statMode, offMode, offPin>>

\* lines 167-168: OFF is made an output and driven high
PowerDownPullOff ==
    /\ pc = "powerDown"
    /\ offMode' = "OUTPUT"
    /\ offPin' = "HIGH"
    /\ pc' = "halt"
    /\ UNCHANGED <<now, powerPressedStartTime, statMode, statLed, push,
                   bootHold, poll, interrupted, cause, runStart, rx, spins>>

\* lines 170-176 without the while (1): powerDown() returns to loop()
PowerDownReturns ==
    /\ pc = "halt"
    /\ spins < MaxSpin
    /\ spins' = spins + 1
    /\ now' = After(now, SpinMs)
    /\ pc' = "loop"
    /\ UNCHANGED <<powerPressedStartTime, pins, push, bootHold,
                   poll, interrupted, cause, runStart, rx>>

\* lines 170-176: one iteration of while (1) { delay(1); }
PowerDownSpin ==
    /\ pc = "halt"
    /\ spins < MaxSpin
    /\ spins' = spins + 1
    /\ now' = After(now, SpinMs)
    /\ UNCHANGED <<pc, powerPressedStartTime, pins, push, bootHold,
                   poll, interrupted, cause, runStart, rx>>

(* ------------------------------------------------------------------ *)
(* setup()                                                            *)
(* ------------------------------------------------------------------ *)

\* lines 40-49: pinMode(_PUSH), the timer starts at millis()
SetupBegin ==
    /\ pc = "setup"
    /\ \E boot \in BootClocks : now' = After(now, boot)
    /\ powerPressedStartTime' = now'
    /\ pc' = "confirm"
    /\ UNCHANGED <<pins, push, bootHold, poll, interrupted, cause, runStart, rx, spins>>

\* lines 50-60: the button reads LOW; delay(100), then break when more than
\* 500 ms have passed
ConfirmWait ==
    /\ pc = "confirm"
    /\ BootSample(now, powerPressedStartTime) = "LOW"
    /\ now' = After(now, ConfirmPollMs)
    /\ push' = "LOW"
    /\ pc' = IF ConfirmElapsed(Since(now', powerPressedStartTime))
             THEN "decide" ELSE "confirm"
    /\ UNCHANGED <<powerPressedStartTime, pins, bootHold, poll,
                   interrupted, cause, runStart, rx, spins>>

\* line 50: the button reads HIGH, the loop ends
ConfirmRelease ==
    /\ pc = "confirm"
    /\ BootSample(now, powerPressedStartTime) = "HIGH"
    /\ push' = "HIGH"
    /\ pc' = "decide"
    /\ UNCHANGED <<now, powerPressedStartTime, pins, bootHold, poll, interrupted,
                   cause, runStart, rx, spins>>

\* lines 63-67: less than 500 ms since the timer started: powerDown()
SetupTap ==
    /\ pc = "decide"
    /\ IsTap(Since(now, powerPressedStartTime))
    /\ PowerDown(now, "tap")
    /\ UNCHANGED <<now, push, bootHold, poll, interrupted, runStart, rx, spins>>

\* lines 69-82 with _OFF written in place of STAT_LED
SetupRunWrongPin ==
    /\ pc = "decide"
    /\ ~IsTap(Since(now, powerPressedStartTime))
    /\ powerPressedStartTime' = 0
    /\ offMode' = "OUTPUT"
    /\ offPin' = "HIGH"
    /\ rx' = NoChar
    /\ runStart' = now
    /\ pc' = "loop"
    /\ UNCHANGED <<now, statMode, statLed, push, bootHold, poll, interrupted,
                   cause, spins>>

\* lines 69-82 without line 70: the timer keeps the start of the boot press
SetupRunKeepsTimer ==
    /\ pc = "decide"
    /\ ~IsTap(Since(now, powerPressedStartTime))
    /\ statMode' = "OUTPUT"
    /\ statLed' = "HIGH"
    /\ rx' = NoChar
    /\ runStart' = now
    /\ pc' = "loop"
    /\ UNCHANGED <<now, powerPressedStartTime, offMode, offPin, push, bootHold,
                   poll, interrupted, cause, spins>>

\* lines 69-82: timer unset, status LED on, RX buffer flushed; loop() is next
SetupRun ==
    /\ pc = "decide"
    /\ ~IsTap(Since(now, powerPressedStartTime))
    /\ powerPressedStartTime' = 0
    /\ statMode' = "OUTPUT"
    /\ statLed' = "HIGH"
    /\ rx' = NoChar
    /\ runStart' = now
    /\ pc' = "loop"
    /\ UNCHANGED <<now, offMode, offPin, push, bootHold, poll, interrupted,
                   cause, spins>>

(* ------------------------------------------------------------------ *)
(* loop()                                                             *)
(* ------------------------------------------------------------------ *)

\* lines 120, 130, 143: the branch one call of loop() takes.  t is the timer,
\* r1, r2, r3 are what digitalRead(_PUSH) returns in the three conditions
Branch(t, r1, r2, r3) ==
    IF r1 = "LOW" /\ t = 0 THEN "press"
    ELSE IF r2 = "LOW" /\ TimerSet(t) THEN "hold"
    ELSE IF r3 = "HIGH" /\ TimerSet(t) THEN "release"
    ELSE "none"

\* lines 123, 133, 146: delay(debounceDelay) runs in the three branches only
PollEnd(clock, b) ==
    IF b = "none" THEN clock ELSE After(clock, debounceDelay)

\* lines 124-128 without the re-sample: the timer starts after the delay
PressTimerNoDebounce(t, rs, end) == end

\* lines 124-128: the press is accepted when the re-sample reads LOW too
PressTimer(t, rs, end) == IF rs = "LOW" THEN end ELSE t

\* lines 134-141 with the re-sample test inverted
HoldFiresOnHigh(t, rs, end) == rs = "HIGH" /\ HoldExpired(Since(end, t))

\* lines 134-141 without the re-sample
HoldFiresNoDebounce(t, rs, end) == HoldExpired(Since(end, t))

\* lines 134-141: powerDown() when the re-sample reads LOW and the hold expired
HoldFires(t, rs, end) == rs = "LOW" /\ HoldExpired(Since(end, t))

\* lines 147-152: the timer is reset after the delay, whatever the re-sample
ReleaseTimer(t, rs, end) == 0

\* the call found the button pressed: at the sample that chose the branch
\* and at the re-sample
ReadsPressed(b, rs) == b \in {"press", "hold"} /\ rs = "LOW"

\* the call read the button released at least one debounce delay after the
\* timer t was started and left the timer running: HIGH at the re-sample of
\* line 134, or HIGH at line 130 and LOW at line 143
Interrupts(clock, t, b, rs) ==
    /\ TimerSet(t)
    /\ \/ b = "hold" /\ rs = "HIGH"
       \/ b = "none" /\ Since(clock, t) >= debounceDelay

\* Behaviours are explored with any input in the calls that start up to
\* MaxTime; later the console sends nothing more and the button only stays
\* pressed, for as long as a hold accepted after MaxTime needs to expire.
WithinHorizon(clock, low) ==
    \/ clock <= MaxTime
    \/ low /\ clock <= MaxTime + PowerDownMs + 2 * debounceDelay

\* lines 120-153 run at clock with timer t: samples r1, r2, r3, re-sample rs
Button(clock, t, r1, r2, r3, rs) ==
    LET b    == Branch(t, r1, r2, r3)
        end  == PollEnd(clock, b)
        low  == ReadsPressed(b, rs)
        fire == b = "hold" /\ HoldFires(t, rs, end)
    IN  /\ WithinHorizon(clock, low)
        /\ now' = end
        /\ push' = IF b = "none" THEN r3 ELSE rs
        /\ poll' = [branch |-> b,
                    second |-> IF b = "none" THEN r3 ELSE rs,
                    held   |-> IF b = "hold" THEN Since(end, t) ELSE 0]
        /\ interrupted' = IF b \in {"hold", "none"}
                          THEN interrupted \/ Interrupts(clock, t, b, rs)
                          ELSE FALSE
        /\ IF fire
           THEN PowerDown(end, "hold")
           ELSE /\ pc' = "loop"
                /\ powerPressedStartTime' =
                      IF b = "press" THEN PressTimer(t, rs, end)
                      ELSE IF b = "release" THEN ReleaseTimer(t, rs, end)
                      ELSE t
                /\ UNCHANGED <<pins, cause>>
        /\ bootHold' = 0
        /\ UNCHANGED <<runStart, spins>>

\* line 91 with the test on the character left out: any character read
\* powers down
IsPowerOffCmdAny(c) == c # NoChar

\* lines 87-91: a character is available and it is 'z'
IsPowerOffCmd(c) == c = "z"

\* lines 87-96: a character is available and it is 'r'
IsLockCmd(c) == c = "r"

\* one call of loop() that takes branch b; the console has nothing, or a
\* character that is neither 'z' nor 'r' (lines 87-96: read and dropped)
LoopPoll(b) ==
    /\ pc = "loop"
    /\ ~IsPowerOffCmd(rx) /\ ~IsLockCmd(rx)
    /\ rx' = NoChar
    /\ \E r1, r2, r3, rs \in Level :
          /\ Branch(powerPressedStartTime, r1, r2, r3) = b
          /\ Button(now, powerPressedStartTime, r1, r2, r3, rs)

\* lines 120-129
LoopPress == LoopPoll("press") /\ poll'.branch = "press"

\* lines 130-142
LoopHold == LoopPoll("hold") /\ poll'.branch = "hold"

\* lines 143-153
LoopRelease == LoopPoll("release") /\ poll'.branch = "release"

\* no branch of lines 120-153 is taken
LoopIdle == LoopPoll("none") /\ poll'.branch = "none"

\* lines 91-95: 'z' on the console: powerDown()
LoopPowerOffCmd ==
    /\ pc = "loop"
    /\ IsPowerOffCmd(rx)
    /\ rx' = NoChar
    /\ PowerDown(now, "z")
    /\ poll' = NoPoll("z")
    /\ bootHold' = 0
    /\ UNCHANGED <<now, push, interrupted, runStart, spins>>

\* lines 96-101: 'r' on the console: the program waits for a press
LoopLockCmd ==
    /\ pc = "loop"
    /\ ~IsPowerOffCmd(rx) /\ IsLockCmd(rx)
    /\ rx' = NoChar
    /\ pc' = "lockWait"
    /\ poll' = NoPoll("r")
    /\ bootHold' = 0
    /\ UNCHANGED <<now, powerPressedStartTime, pins, push, interrupted,
                   cause, runStart, spins>>

\* lines 101-105: while (HIGH) delay(1) runs w times, then the button reads
\* LOW and the timer starts
LockWaitPress ==
    /\ pc = "lockWait"
    /\ \E w \in LockWaits :
          /\ WithinHorizon(now, w = 0)
          /\ now' = After(now, w * SpinMs)
    /\ powerPressedStartTime' = now'
    /\ push' = "LOW"
    /\ interrupted' = FALSE
    /\ pc' = "locked"
    /\ UNCHANGED <<pins, bootHold, poll, cause, runStart, rx, spins>>

\* line 116 left out: the timer keeps the start of the press timed in the
\* 'r' mode
LockExitTimerKept(t) == t

\* line 116: powerPressedStartTime = 0 when the 'r' mode is left
LockExitTimer(t) == 0

\* lines 106-153: while (1) { delay(1); if HIGH break; } runs h times, the
\* timer is reset and the rest of this call of loop() runs; Serial is not
\* read
LockedRelease ==
    /\ pc = "locked"
    /\ \E h \in LockHolds, r1, r2, r3, rs \in Level :
          /\ WithinHorizon(After(now, h * SpinMs), FALSE)
          /\ Button(After(now, h * SpinMs),
                    LockExitTimer(powerPressedStartTime), r1, r2, r3, rs)
    /\ UNCHANGED rx

\* the console sends a character while the RX buffer is empty; it stays
\* in the buffer until Serial.read() takes it (lines 82, 89)
ConsoleInput ==
    /\ rx = NoChar
    /\ WithinHorizon(now, FALSE)
    /\ \E c \in Chars : rx' = c
    /\ UNCHANGED <<pc, now, powerPressedStartTime, pins, push, bootHold,
                   poll, interrupted, cause, runStart, spins>>

Confirming == pc \in {"setup", "confirm", "decide"}

Running == pc \in {"loop", "lockWait", "locked"}

PoweringDown == pc \in {"powerDown", "halt"}

Next ==
    \/ SetupBegin
    \/ ConfirmWait
    \/ ConfirmRelease
    \/ SetupTap
    \/ SetupRun
    \/ LoopPress
    \/ LoopHold
    \/ LoopRelease
    \/ LoopIdle
    \/ LoopPowerOffCmd
    \/ LoopLockCmd
    \/ LockWaitPress
    \/ LockedRelease
    \/ PowerDownPullOff
    \/ PowerDownSpin
    \/ ConsoleInput

Spec == Init /\ [][Next]_vars

\* The Arduino core calls loop() again as soon as it returns, and a call
\* that is inside a delay goes on when the delay is over: the program
\* always takes its next step.  (The console can send only one character
\* before the program has to read, so its steps cannot stand in for the
\* program's.)
LiveSpec == Spec /\ WF_vars(Next)

\* Running after 2^32 ms: loop() has been called with the button released
\* ever since setup() returned, and the millisecond counter is about to
\* wrap.
WrapInit ==
    /\ pc = "loop"
    /\ now \in WrapStarts
    /\ powerPressedStartTime = 0
    /\ statMode = "OUTPUT" /\ statLed = "HIGH"
    /\ offMode = "INPUT" /\ offPin = "LOW"
    /\ bootHold = 0
    /\ push = "HIGH"
    /\ poll = [branch |-> "none", second |-> "HIGH", held |-> 0]
    /\ interrupted = FALSE
    /\ cause = "none"
    /\ runStart = ConfirmMs
    /\ rx = NoChar
    /\ spins = 0

\* the calls of loop() that poll the button, and powerDown()
WrapNext ==
    \/ LoopPress
    \/ LoopHold
    \/ LoopRelease
    \/ LoopIdle
    \/ PowerDownPullOff
    \/ PowerDownSpin

WrapSpec == WrapInit /\ [][WrapNext]_vars

(* ------------------------------------------------------------------ *)
(* Startup confirmation                                               *)
(* ------------------------------------------------------------------ *)

\* C1: a boot press released less than 500 ms after the timer started
\* (bootHold < 500, 0 = never pressed) ends setup() in powerDown() on the tap
\* path and never in Running.
C1_ShortBootHoldPowersDown ==
    (bootHold < ConfirmMs /\ poll.branch = "boot" /\ ~Confirming)
        => (PoweringDown /\ cause = "tap")

C3_HoldAtThresholdPowersDown ==
    (poll.branch = "hold" /\ poll.second = "LOW" /\ poll.held >= PowerDownMs)
        => (PoweringDown /\ cause = "hold")

\* C4 (as stated): a press shorter than 2000 ms takes no power action, also
\* when short presses follow each other with brief releases in between:
\* the hold path calls powerDown() only if no sample read released since
\* one debounce delay after the timer started, and the release branch
\* leaves the timer unset.
C4_ShortPressesNeverPowerDown ==
    /\ (cause = "hold" => ~interrupted)
    /\ (poll.branch = "release" => powerPressedStartTime = 0)

\* C4 (amended): the hold path calls powerDown() only in a call that reads
\* the button pressed at the sample and the re-sample with more than 2000 ms
\* on the timer; a call that takes the release branch takes no power action
\* and leaves the timer unset; the next accepted press is timed from its own
\* acceptance.
C4_ReleasedPressNoPowerDown ==
    /\ (cause = "hold" =>
            /\ poll.branch = "hold" /\ poll.second = "LOW"
            /\ poll.held > PowerDownMs)
    /\ (poll.branch = "release" =>
            /\ pc = "loop" /\ powerPressedStartTime = 0
            /\ offPin = "LOW" /\ offMode = "INPUT" /\ cause = "none")
    /\ (pc = "loop" /\ poll.branch = "press" /\ poll.second = "LOW" =>
            powerPressedStartTime = now)

\* a timed press has been released in the release branch, with no power
\* action and the timer unset
C4_Witness ==
    /\ pc = "loop" /\ poll.branch = "release" /\ poll.second = "HIGH"
    /\ powerPressedStartTime = 0 /\ offPin = "LOW" /\ statLed = "HIGH"

\* C5: a release that lasts less than the debounce delay (HIGH at line 143,
\* LOW again at the re-sample of line 147) leaves the press timer at its
\* start value.
C5_NoisyReleaseKeepsTimer ==
    (pc = "loop" /\ poll.branch = "release" /\ poll.second = "LOW")
        => TimerSet(powerPressedStartTime)

(* ------------------------------------------------------------------ *)
(* PoweringDown                                                       *)
(* ------------------------------------------------------------------ *)

\* C6: once powerDown() has been called the program stays in it: no step
\* changes the path, the timer, the samples or the LED, OFF once high stays
\* high, and the final loop is never left.
C6_PowerDownTerminal ==
    [][PoweringDown =>
          /\ PoweringDown'
          /\ (pc = "halt" => pc' = "halt")
          /\ (pc' = "halt" => offPin' = "HIGH" /\ offMode' = "OUTPUT")
          /\ statLed' = "LOW"
          /\ cause' = cause
          /\ powerPressedStartTime' = powerPressedStartTime
          /\ poll' = poll /\ push' = push]_vars

\* powerDown()'s final loop has run after a hold
C6_Witness ==
    pc = "halt" /\ spins > 0 /\ cause = "hold" /\ offPin = "HIGH"

\* every call of loop() so far finds the button pressed, outside the 'r' mode
HeldDown ==
    /\ pc \notin {"lockWait", "locked"}
    /\ poll.branch \in {"press", "hold"}
    /\ poll.second = "LOW"

\* C7: if from some call of loop() on every call reads the button pressed
\* and the program is not in the 'r' mode, powerDown() is eventually
\* called and OFF is driven high.
C7_HeldEventuallyPowersDown ==
    <>[]HeldDown => <>(pc = "halt" /\ offPin = "HIGH")

\* the hold path has driven OFF high
C7_Witness ==
    /\ pc = "halt" /\ offPin = "HIGH" /\ cause = "hold"
    /\ HeldDown /\ poll.held > PowerDownMs

(* ------------------------------------------------------------------ *)
(* Invariants of the timer and the outputs                            *)
(* ------------------------------------------------------------------ *)

\* C8 (as stated): the press timer is set only while the input reads pressed.
C8_TimerOnlyWhilePressed ==
    TimerSet(powerPressedStartTime) => push = "LOW"

\* C8 (amended): in a call of loop() (a step from loop to loop that leaves
\* the RX buffer read) the timer changes to a set
\* value only in a call whose sample and re-sample read pressed; a call that
\* takes the release branch leaves it unset, one debounce delay after the
\* sample that read released; a set timer changes in no other call, so a
\* HIGH at a re-sample leaves it set.  setup(), powerDown() and the 'r' mode
\* store millis() in the timer whatever the input reads.
C8_TimerFollowsLoop ==
    [][/\ (pc = "loop" /\ pc' = "loop" /\ rx' = NoChar) =>
             /\ (TimerSet(powerPressedStartTime')
                    /\ powerPressedStartTime' # powerPressedStartTime
                  => /\ poll'.branch = "press" /\ poll'.second = "LOW"
                     /\ push' = "LOW"
                     /\ powerPressedStartTime' = now')
             /\ (poll'.branch = "release" =>
                     /\ powerPressedStartTime' = 0
                     /\ now' = After(now, debounceDelay))
             /\ (TimerSet(powerPressedStartTime)
                    /\ powerPressedStartTime' # powerPressedStartTime
                  => poll'.branch = "release")
       /\ (pc \in {"setup", "lockWait"} /\ pc' # pc =>
               powerPressedStartTime' = now')
       /\ (~PoweringDown /\ PoweringDown' => powerPressedStartTime' = now')
      ]_vars

\* a press has been accepted and the timer is running
C8_Witness ==
    /\ pc = "loop" /\ poll.branch = "press" /\ push = "LOW"
    /\ TimerSet(powerPressedStartTime)

\* C9: OFF is an output driven high only at the end of powerDown(); in
\* startup confirmation, Running and the 'r' mode the pin is never
\* configured or written.
C9_OffOnlyInPowerDown ==
    /\ (~PoweringDown => offMode = "INPUT" /\ offPin = "LOW")
    /\ (offPin = "HIGH" \/ offMode = "OUTPUT" => pc = "halt")

\* the 'r' mode times a press with OFF untouched
C9_Witness ==
    pc = "locked" /\ offMode = "INPUT" /\ offPin = "LOW"

\* C10: the status LED is high only in Running with OFF not driven; it is
\* low during startup confirmation and from the first statement of
\* powerDown() on, before OFF is raised.
C10_LedOnlyWhileOn ==
    /\ (statLed = "HIGH" => Running /\ offPin = "LOW")
    /\ (Confirming \/ PoweringDown => statLed = "LOW")

\* powerDown() has put the LED out and has not raised OFF yet
C10_Witness ==
    /\ pc = "powerDown" /\ cause = "hold"
    /\ statLed = "LOW" /\ statMode = "OUTPUT" /\ offPin = "LOW"

(* ------------------------------------------------------------------ *)
(* Console commands                                                   *)
(* ------------------------------------------------------------------ *)

\* C11: a call of loop() that reads 'z' calls powerDown() in that call, with
\* no time passing, whatever the button reads and whatever the timer holds;
\* a call that reads a character other than 'z' and 'r' takes the character
\* from the buffer and otherwise does exactly what a call polling the
\* button does.
C11_PowerOffCmdAndOtherChars ==
    [][pc = "loop" =>
          /\ (rx = "z" =>
                 /\ pc' = "powerDown" /\ cause' = "z" /\ statLed' = "LOW"
                 /\ now' = now /\ rx' = NoChar)
          /\ (rx = "x" =>
                 /\ rx' = NoChar
                 /\ \E r1, r2, r3, rs \in Level :
                       Button(now, powerPressedStartTime, r1, r2, r3, rs))
      ]_vars

\* 'z' has powered the system down while a press was being timed
C11_Witness ==
    /\ pc = "halt" /\ cause = "z" /\ poll.branch = "z"
    /\ push = "LOW" /\ offPin = "HIGH" /\ statLed = "LOW"

(* ------------------------------------------------------------------ *)
(* Debounce of the press and of the hold                              *)
(* ------------------------------------------------------------------ *)

\* C12: in a call of loop() an unset timer is started only in the press
\* branch (LOW at line 120) with LOW at the re-sample one debounce delay
\* later; a press branch whose re-sample reads HIGH leaves the timer unset
\* and the pins alone; powerDown() on the hold path is called only in a
\* hold branch whose re-sample, one debounce delay later, reads LOW.
C12_PressAndHoldDebounced ==
    [][(pc = "loop" /\ rx' = NoChar) =>
          /\ (~TimerSet(powerPressedStartTime) /\ pc' = "loop"
                 /\ TimerSet(powerPressedStartTime')
               => /\ poll'.branch = "press" /\ poll'.second = "LOW"
                  /\ now' = After(now, debounceDelay)
                  /\ powerPressedStartTime' = now')
          /\ (poll'.branch = "press" /\ poll'.second = "HIGH"
               => /\ ~TimerSet(powerPressedStartTime')
                  /\ pins' = pins /\ pc' = "loop" /\ cause' = cause)
          /\ (cause' = "hold"
               => /\ poll'.branch = "hold" /\ poll'.second = "LOW"
                  /\ now' = After(now, debounceDelay))
      ]_vars

\* a press seen at line 120 was rejected by the re-sample
C12_Witness ==
    /\ pc = "loop" /\ poll.branch = "press" /\ poll.second = "HIGH"
    /\ powerPressedStartTime = 0 /\ statLed = "HIGH" /\ offPin = "LOW"

(* ------------------------------------------------------------------ *)
(* Termination of the startup confirmation                            *)
(* ------------------------------------------------------------------ *)

C14_BootHoldNotCounted ==
    /\ (pc = "loop" /\ poll.branch = "boot" => powerPressedStartTime = 0)
    /\ (Running /\ TimerSet(powerPressedStartTime) =>
            Since(powerPressedStartTime, runStart) >= 0)
    /\ (pc = "loop" /\ TimerSet(powerPressedStartTime) =>
            Since(powerPressedStartTime, runStart) >= debounceDelay)
    /\ (cause = "hold" => Since(now, runStart) > PowerDownMs)

\* the button was never read released since boot and the hold path has
\* powered the system down, 2040 ms after setup() returned
C14_Witness ==
    /\ pc = "powerDown" /\ cause = "hold" /\ ~interrupted
    /\ Since(now, runStart) = PowerDownMs + 2 * debounceDelay

(* ------------------------------------------------------------------ *)
(* The 'r' test mode                                                  *)
(* ------------------------------------------------------------------ *)

\* C15 (as stated): the 'r' mode ignores console input: when the mode is
\* left with no power action taken, nothing the console sent during it is
\* left to be acted on.
C15_LockedIgnoresConsole ==
    [][pc = "locked" /\ pc' = "loop" =>
          /\ pins' = pins /\ cause' = "none"
          /\ rx' = NoChar]_vars

\* C15 (amended): 'r' takes the program into the 'r' mode with pins and
\* timer untouched.  In the mode no step calls powerDown() or writes a
\* pin, however long the button is held, and no step reads the console: a
\* character that arrives changes nothing else and stays unread.  The mode
\* goes from waiting to timing at a sample that reads pressed, which
\* starts the timer, and is left from timing only; the call of loop() that
\* leaves it goes on with the timer unset and the LED high, so that it
\* takes the press branch or none, and the characters that arrived during
\* the mode are still in the buffer for the next calls of loop().
C15_LockedMode ==
    [][/\ (pc = "loop" /\ rx = "r" =>
              /\ pc' = "lockWait" /\ rx' = NoChar /\ pins' = pins
              /\ powerPressedStartTime' = powerPressedStartTime)
       /\ (pc \in {"lockWait", "locked"} =>
              /\ pins' = pins /\ statLed' = "HIGH" /\ offPin' = "LOW"
              /\ cause' = "none" /\ ~PoweringDown'
              /\ (rx # NoChar => rx' = rx)
              /\ (rx' # rx =>
                     /\ pc' = pc /\ now' = now /\ push' = push
                     /\ powerPressedStartTime' = powerPressedStartTime))
       /\ (pc = "lockWait" /\ pc' # pc =>
              /\ pc' = "locked" /\ push' = "LOW"
              /\ powerPressedStartTime' = now')
       /\ (pc = "locked" /\ pc' # pc =>
              /\ pc' = "loop" /\ rx' = rx
              /\ poll'.branch \in {"press", "none"}
              /\ \/ powerPressedStartTime' = 0
                 \/ /\ poll'.branch = "press" /\ poll'.second = "LOW"
                    /\ powerPressedStartTime' = now')
      ]_vars

\* 'z' has arrived while the 'r' mode times a press; nothing has been done
\* about it
C15_Witness ==
    /\ pc = "locked" /\ rx = "z" /\ push = "LOW"
    /\ TimerSet(powerPressedStartTime)
    /\ statLed = "HIGH" /\ offPin = "LOW" /\ cause = "none"

(* ------------------------------------------------------------------ *)
(* The timer in powerDown()                                           *)
(* ------------------------------------------------------------------ *)

\* C16 (as stated): once powerDown() has been entered the press timer is
\* unset.
C16_TimerUnsetInPowerDown ==
    PoweringDown => ~TimerSet(powerPressedStartTime)

\* C16 (amended): once powerDown() has been entered the timer holds
\* millis() as read in powerDown() (line 165), on every path: the time
\* since then is the time spent in the final loop.
C16_TimerHoldsPowerDownTime ==
    PoweringDown => Since(now, powerPressedStartTime) = spins * SpinMs

\* a boot tap has powered the system down and the timer is set
C16_Witness ==
    /\ pc = "halt" /\ cause = "tap" /\ spins > 0
    /\ TimerSet(powerPressedStartTime) /\ offPin = "HIGH"

(* ------------------------------------------------------------------ *)
(* The sentinel 0 and the wrap of millis()                            *)
(* ------------------------------------------------------------------ *)

\* C17: whenever a call of loop() accepts a debounced press (press branch,
\* LOW at the re-sample) and stores millis(), the timer is set afterwards,
\* for every value of the clock, also around the wrap of the counter.
C17_AcceptedPressSetsTimer ==
    (pc = "loop" /\ poll.branch = "press" /\ poll.second = "LOW")
        => TimerSet(powerPressedStartTime)

====
